---------------------------- MODULE Spec2Model ----------------------------
(***************************************************************************)
(* Full Page Screenshot Extension.                                         *)
(*                                                                         *)
(*   background.js      (src/README.md 40-192)   capture orchestrator      *)
(*   content_script.js  (src/unnamed/part_000)   in-page agent and locator *)
(*   popup.js           (src/unnamed/part_001)   start trigger             *)
(*   result.js          (src/result.js)          stitcher                  *)
(*                                                                         *)
(* All lengths are CSS pixels unless a name says device pixels.            *)
(***************************************************************************)
EXTENDS Integers, Sequences, FiniteSets, TLC

(***************************************************************************)
(* Program constants.                                                      *)
(***************************************************************************)
OVERLAP == 80
MAX_STEPS == 50

(***************************************************************************)
(* Bounds of the model.                                                    *)
(***************************************************************************)
\* locator documents: elements after <html>, and the scrollHeight ladder
MaxElems == 2
MaxHeightRank == 2

(***************************************************************************)
(* The document.  An element carries what the scripts read of it: layout   *)
(* box, computed style from the page's style sheets, inline style, scroll  *)
(* offset.  Elements are listed in document order; element 1 is <html>.    *)
(* Elements are modelled without ancestor relations, so a style set on one *)
(* element is not inherited by another.                                    *)
(***************************************************************************)
Rect(top, bottom, left, right) ==
    [top |-> top, bottom |-> bottom, left |-> left, right |-> right,
     width |-> right - left, height |-> bottom - top]

\* getComputedStyle(el).visibility: the inline value wins when there is one
ComputedVisibility(el) ==
    IF el.styleVisibility # "" THEN el.styleVisibility ELSE el.cssVisibility

\* getComputedStyle(el).overflowY: el.style.overflow sets both axes
ComputedOverflowY(el) ==
    IF el.styleOverflow # "" THEN el.styleOverflow ELSE el.cssOverflowY


(***************************************************************************)
(* Bounds of the capture model.                                            *)
(***************************************************************************)
\* invocations of startCapture that the model follows
MaxThreads == 2
\* viewport heights OVERLAP - StepUnit, OVERLAP, ..., OVERLAP + MaxStepRank * StepUnit
StepUnit == 20
MaxStepRank == 2
\* content heights: the viewport plus FullUnit * (2^j - 1), j = 0..MaxFullRank
FullUnit == 70
MaxFullRank == 4
\* times the page may grow under the capture (lazy content, infinite scroll)
MaxGrowths == 1
GrowUnit == 150
\* frames in a stored capture handed to the stitcher
MaxFrames == 3

Tabs == {1, 2}
Threads == 1..MaxThreads

(***************************************************************************)
(* State.                                                                  *)
(***************************************************************************)
VARIABLES
    doc,            \* the document handed to the locator's test harness
    located,        \* findScrollableElement's return value there (0: not called)
    page,           \* per tab: the document (elements, window)
    gone,           \* per tab: closed or navigated away, no receiver is left
    growths,        \* per tab: times the page has grown
    agent,          \* per tab: the content script's variables
    inbox,          \* per tab: messages sent with chrome.tabs.sendMessage, in order
    settling,       \* per tab: SCROLL_TO handlers inside wait(1000)
    captureState,   \* background.js: tabId -> session object (0: no entry)
    sessions,       \* the session objects, by the invocation that made them
    threads,        \* invocations of startCapture: where each is, what it holds
    startsLeft,     \* start requests the user may still make
    storage,        \* chrome.storage.local, key 'capturedData'
    results,        \* result.html pages opened, in order
    hist,           \* per invocation: what it has sent and asked for
    snap            \* per tab: the document as prepare found it, and whether
                    \* restore has run since

locVars == <<doc, located>>
pageVars == <<page, gone, growths, agent, inbox, settling, snap>>
bgVars == <<captureState, sessions, threads, startsLeft, storage>>
vars == <<doc, located, page, gone, growths, agent, inbox, settling,
          captureState, sessions, threads, startsLeft, storage, results, hist,
          snap>>

(***************************************************************************)
(* findScrollableElement (content_script.js).                              *)
(***************************************************************************)
\* isScrollable(el)
isScrollable(el) ==
    /\ ComputedOverflowY(el) \in {"auto", "scroll", "overlay"}
    /\ el.scrollHeight > el.clientHeight

\* the viewport test of isVisible
OutsideViewport(el, p) ==
    \/ el.rect.top >= p.innerHeight
    \/ el.rect.bottom <= 0
    \/ el.rect.left >= p.innerWidth
    \/ el.rect.right <= 0

\* an isVisible without the opacity test
isVisibleAnyOpacity(el, p) ==
    /\ ~(\/ el.display = "none"
         \/ ComputedVisibility(el) = "hidden")
    /\ ~(el.rect.width = 0 \/ el.rect.height = 0)
    /\ ~OutsideViewport(el, p)

\* isVisible(el)
isVisible(el, p) ==
    /\ ~(\/ el.display = "none"
         \/ ComputedVisibility(el) = "hidden"
         \/ el.opacity = "0")
    /\ ~(el.rect.width = 0 \/ el.rect.height = 0)
    /\ ~OutsideViewport(el, p)

\* the size pre-filter: el.clientWidth < innerWidth * 0.5 || clientHeight < ...
TooSmall(el, p) ==
    \/ 2 * el.clientWidth < p.innerWidth
    \/ 2 * el.clientHeight < p.innerHeight

\* the filter callback of step 1
PassesFilter(el, p) ==
    /\ ~TooSmall(el, p)
    /\ isVisible(el, p)
    /\ isScrollable(el)

\* Array.from(document.querySelectorAll('*')).filter(...): document order
Enumerated(p) ==
    SelectSeq([i \in 1..Len(p.els) |-> i], LAMBDA i : PassesFilter(p.els[i], p))

\* document.scrollingElement && scrollingElement.scrollHeight > clientHeight
RootScrolls(p) ==
    /\ p.scrollingElement # 0
    /\ p.els[p.scrollingElement].scrollHeight
           > p.els[p.scrollingElement].clientHeight

\* candidates after the push of document.scrollingElement
Candidates(p) ==
    IF RootScrolls(p) THEN Append(Enumerated(p), p.scrollingElement)
    ELSE Enumerated(p)

\* the sort with the comparator reversed: shortest first
RECURSIVE InsertAscending(_, _, _)
InsertAscending(x, s, p) ==
    IF s = <<>> THEN <<x>>
    ELSE IF p.els[Head(s)].scrollHeight - p.els[x].scrollHeight > 0
         THEN <<x>> \o s
         ELSE <<Head(s)>> \o InsertAscending(x, Tail(s), p)

\* a sort that is not stable: of two equal elements the later goes first
RECURSIVE InsertUnstable(_, _, _)
InsertUnstable(x, s, p) ==
    IF s = <<>> THEN <<x>>
    ELSE IF p.els[x].scrollHeight - p.els[Head(s)].scrollHeight >= 0
         THEN <<x>> \o s
         ELSE <<Head(s)>> \o InsertUnstable(x, Tail(s), p)

\* Array.prototype.sort with (a, b) => b.scrollHeight - a.scrollHeight: a
\* stable sort, so x goes behind every element that does not sort after it
RECURSIVE InsertSorted(_, _, _)
InsertSorted(x, s, p) ==
    IF s = <<>> THEN <<x>>
    ELSE IF p.els[x].scrollHeight - p.els[Head(s)].scrollHeight > 0
         THEN <<x>> \o s
         ELSE <<Head(s)>> \o InsertSorted(x, Tail(s), p)

RECURSIVE SortByScrollHeight(_, _)
SortByScrollHeight(s, p) ==
    IF s = <<>> THEN <<>>
    ELSE InsertSorted(s[Len(s)], SortByScrollHeight(SubSeq(s, 1, Len(s) - 1), p), p)

\* the element returned: candidates[0], else document.documentElement
findScrollableElement(p) ==
    LET sorted == SortByScrollHeight(Candidates(p), p)
    IN  IF Len(sorted) > 0 THEN sorted[1] ELSE 1

(***************************************************************************)
(* Documents for the locator.  Every element is the plain large visible    *)
(* scroller with one property changed, so that each test of the filter is  *)
(* decided alone, at each scrollHeight of the ladder.                      *)
(***************************************************************************)
InnerWidth == 1024
InnerHeight == 768
BoxHeight == 500

\* kinds that pass every test of the filter, and kinds that fail exactly one
GoodKinds == {"auto", "scroll", "overlay", "half"}
BadKinds ==
    {"visible", "clip", "fits", "narrow", "short", "none", "hidden",
     "inlineHidden", "opacity0", "zeroWidth", "zeroHeight", "below", "above",
     "right", "left"}

HeightLadder == {1000 + 4000 * (k - 1) : k \in 1..MaxHeightRank}
TopHeight == 1000 + 4000 * (MaxHeightRank - 1)

MakeElement(kind, sh) ==
    [clientWidth  |-> CASE kind = "narrow" -> InnerWidth \div 2 - 1
                        [] kind = "half" -> InnerWidth \div 2
                        [] OTHER -> InnerWidth,
     clientHeight |-> IF kind = "short" THEN InnerHeight \div 2 - 1 ELSE BoxHeight,
     scrollHeight |-> IF kind = "fits" THEN BoxHeight ELSE sh,
     cssOverflowY |-> CASE kind = "scroll" -> "scroll"
                        [] kind = "overlay" -> "overlay"
                        [] kind = "visible" -> "visible"
                        [] kind = "clip" -> "hidden"
                        [] OTHER -> "auto",
     styleOverflow |-> "",
     display      |-> IF kind = "none" THEN "none" ELSE "block",
     cssVisibility |-> IF kind = "hidden" THEN "hidden" ELSE "visible",
     styleVisibility |-> IF kind = "inlineHidden" THEN "hidden" ELSE "",
     opacity      |-> IF kind = "opacity0" THEN "0" ELSE "1",
     position     |-> "static",
     scrollTop    |-> 0,
     rect |-> CASE kind = "zeroWidth" -> Rect(0, BoxHeight, 0, 0)
                [] kind = "zeroHeight" -> Rect(0, 0, 0, InnerWidth)
                [] kind = "below" -> Rect(InnerHeight, InnerHeight + BoxHeight, 0, InnerWidth)
                [] kind = "above" -> Rect(0 - BoxHeight, 0, 0, InnerWidth)
                [] kind = "right" -> Rect(0, BoxHeight, InnerWidth, 2 * InnerWidth)
                [] kind = "left" -> Rect(0, BoxHeight, 0 - InnerWidth, 0)
                [] OTHER -> Rect(0, BoxHeight, 0, InnerWidth)]

\* a rejected element is given the largest content, which must not help it
Elements ==
    {MakeElement(k, h) : k \in GoodKinds, h \in HeightLadder}
        \cup {MakeElement(k, TopHeight) : k \in BadKinds}

\* <html> or <body> as the scrolling root: overflow visible as a rule,
\* sometimes styled to scroll; not overflowing; faded out or hidden by an
\* anti-flicker style; of zero height around out-of-flow content
RootElements ==
    {MakeElement(k, h) : k \in {"visible", "scroll"}, h \in HeightLadder}
        \cup {[MakeElement(k, TopHeight) EXCEPT !.cssOverflowY = "visible"] :
                 k \in {"fits", "opacity0", "hidden", "zeroHeight"}}

\* document.scrollingElement: <html> (1) in standards mode, <body> (2) in
\* quirks mode, or null (0)
MakePage(r, rest, se) ==
    [els |-> <<r>> \o rest, innerWidth |-> InnerWidth,
     innerHeight |-> InnerHeight, scrollingElement |-> se,
     devicePixelRatio4 |-> 8]

IsLocatorPage(p) ==
    p.scrollingElement = 2 => /\ Len(p.els) >= 2
                              /\ p.els[2] \in RootElements

(***************************************************************************)
(* content_script.js: the in-page agent.                                   *)
(***************************************************************************)
Min(a, b) == IF a < b THEN a ELSE b
Max(a, b) == IF a > b THEN a ELSE b

\* the browser keeps a scroll offset inside [0, scrollHeight - clientHeight]
MaxScroll(el) == Max(0, el.scrollHeight - el.clientHeight)

\* window.scrollTo(0, y) for <html>, el.scrollTop = y otherwise
ScrollElementTo(p, i, y) ==
    [p EXCEPT !.els[i].scrollTop = Max(0, Min(y, MaxScroll(p.els[i])))]

\* the script's variables when it first runs (lines 8-12)
FreshAgent ==
    [hasRun |-> FALSE, originalStyles |-> <<>>, originalScrollY |-> 0,
     scrollContainer |-> 0, barPresent |-> FALSE, barPercent |-> 0,
     barVisibility |-> ""]

\* createProgressBar
createProgressBar(a) ==
    IF a.barPresent THEN a
    ELSE [a EXCEPT !.barPresent = TRUE, !.barPercent = 0, !.barVisibility = ""]

\* updateProgressBar(percent)
updateProgressBar(a, percent) ==
    [createProgressBar(a) EXCEPT !.barPercent = percent]

\* removeProgressBar
removeProgressBar(a) ==
    IF a.barPresent
    THEN [a EXCEPT !.barPresent = FALSE, !.barPercent = 0, !.barVisibility = ""]
    ELSE a

\* the elements hideFixedElements acts on; the progress bar, which is not
\* among els, is the one it skips by id
FixedOrSticky(p) ==
    {i \in 1..Len(p.els) : p.els[i].position \in {"fixed", "sticky"}}

\* hideFixedElements: originalStyles.set(el, {visibility: el.style.visibility})
RecordStyles(p, a) ==
    [i \in (DOMAIN a.originalStyles) \cup FixedOrSticky(p) |->
        IF i \in FixedOrSticky(p) THEN p.els[i].styleVisibility
        ELSE a.originalStyles[i]]

\* hideFixedElements: el.style.visibility = 'hidden'
HideElements(p) ==
    [p EXCEPT !.els = [i \in 1..Len(p.els) |->
        IF i \in FixedOrSticky(p)
        THEN [p.els[i] EXCEPT !.styleVisibility = "hidden"]
        ELSE p.els[i]]]

\* initCapture: "Hide scrollbars"
HideScrollbars(p, sc) ==
    [p EXCEPT !.els = [i \in 1..Len(p.els) |->
        IF i = 1 \/ i = sc
        THEN [p.els[i] EXCEPT !.styleOverflow = "hidden"]
        ELSE p.els[i]]]

\* a hideFixedElements without the test of the id: the bar, which is fixed,
\* is hidden with the rest
HideBarToo(a) ==
    IF a.barPresent THEN [a EXCEPT !.barVisibility = "hidden"] ELSE a

\* hideFixedElements on the progress bar:
\* if (el.id === 'fps-extension-progress-bar') return
HideBar(a) == a

\* initCapture: the agent's variables afterwards
initCaptureAgent(p, a) ==
    LET sc == findScrollableElement(p)
        a1 == [a EXCEPT !.scrollContainer = sc,
                        !.originalScrollY = p.els[sc].scrollTop]
        a2 == HideBar(createProgressBar(a1))
    IN  [a2 EXCEPT !.originalStyles = RecordStyles(p, a2)]

\* initCapture: the document afterwards
initCapturePage(p) ==
    HideScrollbars(HideElements(p), findScrollableElement(p))

\* initCapture: the metrics returned
initCaptureMetrics(p) ==
    LET sc == findScrollableElement(p)
    IN  [defined |-> TRUE,
         fullHeight |-> p.els[sc].scrollHeight,
         visibleHeight |-> p.els[sc].clientHeight,
         devicePixelRatio4 |-> p.devicePixelRatio4,
         originalScrollY |-> p.els[sc].scrollTop,
         actualY |-> 0]

\* a restorePage that clears the inline visibility instead of replaying it
restorePageStylesCleared(p, a) ==
    [p EXCEPT !.els = [i \in 1..Len(p.els) |->
        LET e1 == IF i \in DOMAIN a.originalStyles
                  THEN [p.els[i] EXCEPT !.styleVisibility = ""]
                  ELSE p.els[i]
        IN  IF i = 1 \/ (a.scrollContainer # 0 /\ i = a.scrollContainer)
            THEN [e1 EXCEPT !.styleOverflow = ""]
            ELSE e1]]

\* restorePage: the replay of originalStyles and the overflow reset
restorePageStyles(p, a) ==
    [p EXCEPT !.els = [i \in 1..Len(p.els) |->
        LET e1 == IF i \in DOMAIN a.originalStyles
                  THEN [p.els[i] EXCEPT !.styleVisibility = a.originalStyles[i]]
                  ELSE p.els[i]
        IN  IF i = 1 \/ (a.scrollContainer # 0 /\ i = a.scrollContainer)
            THEN [e1 EXCEPT !.styleOverflow = ""]
            ELSE e1]]

\* restorePage(savedScrollY): the document afterwards
restorePage(p, a, savedScrollY) ==
    IF a.scrollContainer = 0 THEN restorePageStyles(p, a)
    ELSE ScrollElementTo(restorePageStyles(p, a), a.scrollContainer, savedScrollY)

\* restorePage: the agent's variables afterwards
restoreAgent(a) ==
    [removeProgressBar(a) EXCEPT !.originalStyles = <<>>]

(***************************************************************************)
(* result.js: the stitcher.  Device-pixel lengths that come from a         *)
(* multiplication by devicePixelRatio are kept in quarters of a pixel      *)
(* (names ending in 4), so that ratios such as 1.25 and 1.5 are exact.     *)
(***************************************************************************)
\* a result.html page before DOMContentLoaded; the canvas has its default size
NewResultPage ==
    [pc |-> "loading", images |-> <<>>, scale4 |-> 0, overlap |-> 0,
     width |-> 300, height |-> 150, draws |-> <<>>, opener |-> 0]

\* a no-data check that only notices a missing record
NoDataMissingOnly(data) == ~data.live

\* !state || !state.images || state.images.length === 0
NoData(data) == ~data.live \/ Len(data.images) = 0

\* const scale = state.devicePixelRatio || 1
Scale4(data) == IF data.devicePixelRatio4 = 0 THEN 4 ELSE data.devicePixelRatio4

\* const overlap = state.overlap || 0
Overlap(data) == data.overlap

\* assigning a number to canvas.width or canvas.height: the attribute is an
\* unsigned long, so the fraction is dropped; a value that does not fit gives
\* the default
CanvasLength(v4, default) ==
    IF v4 <= -4 THEN default
    ELSE IF v4 < 0 THEN 0
    ELSE v4 \div 4

\* a total height taken from the first frame
FirstFrameHeight4(images, scale4) ==
    images[1].y * scale4 + 4 * images[1].height

\* (lastImg.y * scale) + lastImg.img.height, in quarter pixels
TotalHeight4(images, scale4) ==
    images[Len(images)].y * scale4 + 4 * images[Len(images)].height

\* loadedImages[0].img.width
CompositeWidth(images) == images[1].width

\* a draw loop that places the cropped remainder at the frame's own offset
DrawOfUnshifted(images, i, scale4, overlap) ==
    LET img == images[i]
        drawY4 == img.y * scale4
        cropY4 == overlap * scale4
        cropHeight4 == 4 * img.height - cropY4
    IN  IF i = 1
        THEN <<[index |-> 1, srcY4 |-> 0, srcHeight4 |-> 4 * img.height,
                destY4 |-> drawY4]>>
        ELSE IF cropHeight4 > 0
        THEN <<[index |-> i, srcY4 |-> cropY4, srcHeight4 |-> cropHeight4,
                destY4 |-> drawY4]>>
        ELSE <<>>

\* the forEach of lines 57-77: what is drawn for image number i, if anything
DrawOf(images, i, scale4, overlap) ==
    LET img == images[i]
        drawY4 == img.y * scale4
        cropY4 == overlap * scale4
        cropHeight4 == 4 * img.height - cropY4
    IN  IF i = 1
        THEN <<[index |-> 1, srcY4 |-> 0, srcHeight4 |-> 4 * img.height,
                destY4 |-> drawY4]>>
        ELSE IF cropHeight4 > 0
        THEN <<[index |-> i, srcY4 |-> cropY4, srcHeight4 |-> cropHeight4,
                destY4 |-> drawY4 + cropY4]>>
        ELSE <<>>

RECURSIVE DrawsUpTo(_, _, _, _)
DrawsUpTo(images, n, scale4, overlap) ==
    IF n = 0 THEN <<>>
    ELSE DrawsUpTo(images, n - 1, scale4, overlap)
             \o DrawOf(images, n, scale4, overlap)

\* DOMContentLoaded up to the await of the image loads
ResultLoad(i) ==
    /\ results[i].pc = "loading"
    /\ results' = [results EXCEPT ![i] =
          IF NoData(storage) THEN [@ EXCEPT !.pc = "noData"]
          ELSE [@ EXCEPT !.pc = "loadingImages", !.images = storage.images,
                         !.scale4 = Scale4(storage), !.overlap = Overlap(storage)]]
    /\ UNCHANGED <<locVars, pageVars, bgVars, hist>>

\* an image's onerror: Promise.all rejects and the catch reports it
ResultImageError(i) ==
    /\ results[i].pc = "loadingImages"
    /\ results' = [results EXCEPT ![i].pc = "error"]
    /\ UNCHANGED <<locVars, pageVars, bgVars, hist>>

\* all images loaded: the canvas is sized and the images drawn
ResultStitch(i) ==
    LET r == results[i] IN
    /\ r.pc = "loadingImages"
    /\ results' = [results EXCEPT ![i] =
          [@ EXCEPT !.pc = "done",
                    !.width = CompositeWidth(r.images),
                    !.height = CanvasLength(TotalHeight4(r.images, r.scale4), 150),
                    !.draws = DrawsUpTo(r.images, Len(r.images), r.scale4,
                                        r.overlap)]]
    /\ UNCHANGED <<locVars, pageVars, bgVars, hist>>

(***************************************************************************)
(* background.js: the orchestrator.                                        *)
(***************************************************************************)
NoResponse ==
    [defined |-> FALSE, fullHeight |-> 0, visibleHeight |-> 0,
     devicePixelRatio4 |-> 0, originalScrollY |-> 0, actualY |-> 0]

NoSession ==
    [live |-> FALSE, images |-> <<>>, fullHeight |-> 0, visibleHeight |-> 0,
     devicePixelRatio4 |-> 0, originalScrollY |-> 0, currentY |-> 0,
     steps |-> 0, overlap |-> 0, prevDefined |-> FALSE, prevY |-> 0]

\* the object literal of startCapture (lines 80-89); prevY is not set yet
NewSession(r) ==
    [live |-> TRUE, images |-> <<>>, fullHeight |-> r.fullHeight,
     visibleHeight |-> r.visibleHeight,
     devicePixelRatio4 |-> r.devicePixelRatio4,
     originalScrollY |-> r.originalScrollY, currentY |-> 0,
     steps |-> 0, overlap |-> OVERLAP, prevDefined |-> FALSE, prevY |-> 0]

IdleThread ==
    [pc |-> "idle", tab |-> 0, st |-> 0, actualY |-> 0,
     resp |-> NoResponse, write |-> NoSession]

NoHist ==
    [scrolls |-> 0, captures |-> 0, offsets |-> <<>>, restores |-> <<>>,
     handoffs |-> 0, stepping |-> FALSE, cause |-> "none"]

Message(action, from, arg) == [action |-> action, from |-> from, arg |-> arg]

\* Math.min(Math.round(actualY / fullHeight * 100), 100)
Percent(actualY, fullHeight) ==
    IF fullHeight = 0 THEN 0
    ELSE Min((200 * actualY + fullHeight) \div (2 * fullHeight), 100)

\* the image captureVisibleTab returns: the window's viewport in device pixels
ViewportImage(p) ==
    [width |-> (p.innerWidth * p.devicePixelRatio4) \div 4,
     height |-> (p.innerHeight * p.devicePixelRatio4) \div 4]

\* a step-limit test that lets one more iteration through
AtStepLimitLate(session) == session.steps > MAX_STEPS

\* state.steps >= MAX_STEPS
AtStepLimit(session) == session.steps >= MAX_STEPS

\* a stuck test that only notices a container moving backwards
IsStuckBackwards(session, actualY) ==
    session.prevDefined /\ actualY < session.prevY

\* state.prevY !== undefined && actualY === state.prevY
IsStuck(session, actualY) == session.prevDefined /\ actualY = session.prevY

\* a completion test that wants the viewport to pass the end of the content
IsCompleteStrict(session, actualY) ==
    actualY + session.visibleHeight > session.fullHeight

\* actualY + state.visibleHeight >= state.fullHeight
IsComplete(session, actualY) ==
    actualY + session.visibleHeight >= session.fullHeight

\* a next offset one whole viewport further, with no overlap
NextYFullViewport(session, actualY) == actualY + session.visibleHeight

\* a next offset that skips the overlap instead of repeating it
NextYSkipping(session, actualY) == actualY + session.visibleHeight + OVERLAP

\* const nextY = actualY + state.visibleHeight - OVERLAP
NextY(session, actualY) == actualY + session.visibleHeight - OVERLAP

\* a finishCapture whose RESTORE carries the top of the page
finishCaptureToTop(t, cs, ss, cause) ==
    IF cs[t] = 0
    THEN [pc |-> "thrown", st |-> 0, ss |-> ss, out |-> <<>>, cause |-> cause]
    ELSE [pc |-> "awaitRestore", st |-> cs[t], ss |-> ss,
          out |-> <<[action |-> "RESTORE", arg |-> 0]>>,
          cause |-> cause]

\* finishCapture up to its first await: what the invocation does next.  With
\* no entry for the tab, reading state.originalScrollY throws.
finishCapture(t, cs, ss, cause) ==
    IF cs[t] = 0
    THEN [pc |-> "thrown", st |-> 0, ss |-> ss, out |-> <<>>, cause |-> cause]
    ELSE [pc |-> "awaitRestore", st |-> cs[t], ss |-> ss,
          out |-> <<[action |-> "RESTORE", arg |-> ss[cs[t]].originalScrollY]>>,
          cause |-> cause]

\* captureLoop up to its first await
captureLoop(t, cs, ss) ==
    IF cs[t] = 0
    THEN [pc |-> "done", st |-> 0, ss |-> ss, out |-> <<>>, cause |-> "none"]
    ELSE IF AtStepLimit(ss[cs[t]])
    THEN finishCapture(t, cs, ss, "limit")
    ELSE [pc |-> "awaitScroll", st |-> cs[t],
          ss |-> [ss EXCEPT ![cs[t]].steps = @ + 1],
          out |-> <<[action |-> "SCROLL_TO", arg |-> ss[cs[t]].currentY]>>,
          cause |-> "none"]

\* a callback that reports the progress after it has gone on or finished
afterCaptureProgressLast(t, cs, ss, sid, actualY, image) ==
    LET ss1 == [ss EXCEPT ![sid].images =
                   Append(@, [y |-> actualY, width |-> image.width,
                              height |-> image.height])]
        progress == <<[action |-> "UPDATE_PROGRESS",
                       arg |-> Percent(actualY, ss[sid].fullHeight)]>>
        ss2 == [ss1 EXCEPT ![sid].prevDefined = TRUE, ![sid].prevY = actualY,
                           ![sid].currentY = NextY(ss[sid], actualY)]
        next == IF IsStuck(ss[sid], actualY)
                THEN finishCapture(t, cs, ss1, "stuck")
                ELSE IF IsComplete(ss[sid], actualY)
                THEN finishCapture(t, cs, ss2, "complete")
                ELSE captureLoop(t, cs, ss2)
    IN  [next EXCEPT !.out = @ \o progress]

\* the captureVisibleTab callback after a successful capture (lines 124-164)
afterCapture(t, cs, ss, sid, actualY, image) ==
    LET ss1 == [ss EXCEPT ![sid].images =
                   Append(@, [y |-> actualY, width |-> image.width,
                              height |-> image.height])]
        progress == <<[action |-> "UPDATE_PROGRESS",
                       arg |-> Percent(actualY, ss[sid].fullHeight)]>>
        ss2 == [ss1 EXCEPT ![sid].prevDefined = TRUE, ![sid].prevY = actualY,
                           ![sid].currentY = NextY(ss[sid], actualY)]
        next == IF IsStuck(ss[sid], actualY)
                THEN finishCapture(t, cs, ss1, "stuck")
                ELSE IF IsComplete(ss[sid], actualY)
                THEN finishCapture(t, cs, ss2, "complete")
                ELSE captureLoop(t, cs, ss2)
    IN  [next EXCEPT !.out = progress \o @]

\* the arguments of the messages of one kind among `out`, in order
ArgsOf(out, action) ==
    LET sel == SelectSeq(out, LAMBDA m : m.action = action)
    IN  [i \in 1..Len(sel) |-> sel[i].arg]

\* what one run of background code leaves behind: thread k goes on as `r` says
Continue(k, t, r) ==
    /\ sessions' = r.ss
    /\ threads' = [threads EXCEPT ![k].pc = r.pc, ![k].st = r.st,
                                  ![k].resp = NoResponse]
    /\ inbox' = [inbox EXCEPT ![t] =
                    @ \o [i \in 1..Len(r.out) |->
                             Message(r.out[i].action, k, r.out[i].arg)]]
    /\ hist' = [hist EXCEPT
                   ![k].scrolls = @ + Len(ArgsOf(r.out, "SCROLL_TO")),
                   ![k].stepping = @ \/ r.pc = "awaitScroll",
                   ![k].restores = @ \o ArgsOf(r.out, "RESTORE"),
                   ![k].cause = IF r.cause = "none" THEN @ ELSE r.cause]

Active(k) == threads[k].pc \notin {"idle", "done", "thrown"}

\* the popup's click, START_CAPTURE, tabs.query and startCapture up to the
\* await of executeScript
StartRequest(t) ==
    /\ startsLeft > 0
    /\ \E k \in Threads :
          /\ threads[k].pc = "idle"
          /\ \A j \in Threads : j < k => threads[j].pc # "idle"
          /\ threads' = [threads EXCEPT ![k].pc = "inject", ![k].tab = t]
    /\ startsLeft' = startsLeft - 1
    /\ UNCHANGED <<locVars, pageVars, captureState, sessions, storage, results, hist>>

\* a start request made while no capture of the tab is under way
SerializedStart(t) ==
    /\ \A k \in Threads : Active(k) => threads[k].tab # t
    /\ StartRequest(t)

\* executeScript rejects (no such tab, a page scripts cannot enter): the catch
InjectFails(k) ==
    /\ threads[k].pc = "inject"
    /\ threads' = [threads EXCEPT ![k].pc = "done"]
    /\ UNCHANGED <<locVars, pageVars, captureState, sessions, startsLeft, storage,
                   results, hist>>

\* executeScript resolves: the content script has run once; INIT_CAPTURE is sent
InjectDone(k) ==
    LET t == threads[k].tab IN
    /\ threads[k].pc = "inject"
    /\ ~gone[t]
    /\ agent' = [agent EXCEPT ![t].hasRun = TRUE]
    /\ inbox' = [inbox EXCEPT ![t] = Append(@, Message("INIT_CAPTURE", k, 0))]
    /\ threads' = [threads EXCEPT ![k].pc = "awaitInit"]
    /\ UNCHANGED <<locVars, page, gone, growths, settling, captureState, sessions,
                   startsLeft, storage, results, hist,
                   snap>>

\* a startCapture that makes the entry before it looks at the response
InitResponseKeepsEntry(k) ==
    LET t == threads[k].tab
        r == threads[k].resp
    IN
    /\ threads[k].pc = "gotInit"
    /\ captureState' = [captureState EXCEPT ![t] = k]
    /\ IF ~r.defined
       THEN /\ threads' = [threads EXCEPT ![k].pc = "done", ![k].resp = NoResponse]
            /\ sessions' = [sessions EXCEPT ![k] = NewSession(r)]
            /\ UNCHANGED <<inbox, hist>>
       ELSE Continue(k, t, captureLoop(t, [captureState EXCEPT ![t] = k],
                                       [sessions EXCEPT ![k] = NewSession(r)]))
    /\ UNCHANGED <<locVars, page, gone, growths, agent, settling, startsLeft,
                   storage, results, snap>>

\* startCapture after INIT_CAPTURE's response, and captureLoop's first run
InitResponse(k) ==
    LET t == threads[k].tab
        r == threads[k].resp
    IN
    /\ threads[k].pc = "gotInit"
    /\ IF ~r.defined
       THEN /\ threads' = [threads EXCEPT ![k].pc = "done", ![k].resp = NoResponse]
            /\ UNCHANGED <<captureState, sessions, inbox, hist>>
       ELSE /\ captureState' = [captureState EXCEPT ![t] = k]
            /\ Continue(k, t, captureLoop(t, [captureState EXCEPT ![t] = k],
                                          [sessions EXCEPT ![k] = NewSession(r)]))
    /\ UNCHANGED <<locVars, page, gone, growths, agent, settling, startsLeft,
                   storage, results, snap>>

\* a captureLoop that asks for the capture and at once goes round again
ScrollResponseEager(k) ==
    LET r == threads[k].resp
        t == threads[k].tab
        actualY == IF r.defined THEN r.actualY
                   ELSE sessions[threads[k].st].currentY
    IN
    /\ threads[k].pc = "gotScroll"
    /\ threads' = [threads EXCEPT ![k].pc = "awaitCapture", ![k].actualY = actualY,
                                  ![k].resp = NoResponse]
    /\ inbox' = [inbox EXCEPT ![t] =
                    Append(@, Message("SCROLL_TO", k,
                                      sessions[threads[k].st].currentY))]
    /\ hist' = [hist EXCEPT ![k].captures = @ + 1,
                            ![k].offsets = Append(@, actualY),
                            ![k].scrolls = @ + 1]
    /\ UNCHANGED <<locVars, page, gone, growths, agent, settling, snap,
                   captureState, sessions, startsLeft, storage, results>>

\* captureLoop after SCROLL_TO's response: actualY, then captureVisibleTab
ScrollResponse(k) ==
    LET r == threads[k].resp
        actualY == IF r.defined THEN r.actualY
                   ELSE sessions[threads[k].st].currentY
    IN
    /\ threads[k].pc = "gotScroll"
    /\ threads' = [threads EXCEPT ![k].pc = "awaitCapture", ![k].actualY = actualY,
                                  ![k].resp = NoResponse]
    /\ hist' = [hist EXCEPT ![k].captures = @ + 1,
                            ![k].offsets = Append(@, actualY)]
    /\ UNCHANGED <<locVars, pageVars, captureState, sessions, startsLeft, storage,
                   results>>

\* a failure branch that pushes the missing image before finishing
CaptureFailedKeepsFrame(k) ==
    LET t == threads[k].tab
        ss1 == [sessions EXCEPT ![threads[k].st].images =
                   Append(@, [y |-> threads[k].actualY, width |-> 0, height |-> 0])]
    IN
    /\ threads[k].pc = "awaitCapture"
    /\ Continue(k, t, finishCapture(t, captureState, ss1, "captureFailed"))
    /\ UNCHANGED <<locVars, page, gone, growths, agent, settling, captureState,
                   startsLeft, storage, results,
                   snap>>

\* the captureVisibleTab callback with lastError set or no dataUrl
CaptureFailed(k) ==
    LET t == threads[k].tab IN
    /\ threads[k].pc = "awaitCapture"
    /\ Continue(k, t, finishCapture(t, captureState, sessions, "captureFailed"))
    /\ UNCHANGED <<locVars, page, gone, growths, agent, settling, captureState,
                   startsLeft, storage, results,
                   snap>>

\* the captureVisibleTab callback with an image
CaptureDone(k) ==
    LET t == threads[k].tab IN
    /\ threads[k].pc = "awaitCapture"
    /\ Continue(k, t, afterCapture(t, captureState, sessions, threads[k].st,
                                   threads[k].actualY, ViewportImage(page[t])))
    /\ UNCHANGED <<locVars, page, gone, growths, agent, settling, captureState,
                   startsLeft, storage, results,
                   snap>>

\* finishCapture after RESTORE's response: chrome.storage.local.set is called
RestoreResponse(k) ==
    /\ threads[k].pc = "gotRestore"
    /\ threads' = [threads EXCEPT ![k].pc = "awaitStorage",
                                  ![k].write = sessions[threads[k].st],
                                  ![k].resp = NoResponse]
    /\ hist' = [hist EXCEPT ![k].handoffs = @ + 1]
    /\ UNCHANGED <<locVars, pageVars, captureState, sessions, startsLeft, storage,
                   results>>

\* storage.set resolves: the result page is opened and the entry deleted
StorageDone(k) ==
    /\ threads[k].pc = "awaitStorage"
    /\ storage' = threads[k].write
    /\ results' = Append(results, [NewResultPage EXCEPT !.opener = k])
    /\ captureState' = [captureState EXCEPT ![threads[k].tab] = 0]
    /\ threads' = [threads EXCEPT ![k].pc = "done", ![k].write = NoSession]
    /\ UNCHANGED <<locVars, pageVars, sessions, startsLeft, hist>>

\* the service worker's global scope has no alert (README.md line 3: Manifest
\* V3; IMPLEMENTATION_LOG.md line 12: Service Worker), so the call in the
\* catch throws a ReferenceError
AlertThrows == TRUE

\* storage.set rejects: the catch runs; the delete runs only if alert returns
StorageFailed(k) ==
    /\ threads[k].pc = "awaitStorage"
    /\ IF AlertThrows
       THEN /\ threads' = [threads EXCEPT ![k].pc = "thrown", ![k].write = NoSession]
            /\ UNCHANGED captureState
       ELSE /\ threads' = [threads EXCEPT ![k].pc = "done", ![k].write = NoSession]
            /\ captureState' = [captureState EXCEPT ![threads[k].tab] = 0]
    /\ UNCHANGED <<locVars, pageVars, sessions, startsLeft, storage, results, hist>>

(***************************************************************************)
(* The page's side of the messages, and the page's own changes.            *)
(***************************************************************************)
Pop(t) == inbox' = [inbox EXCEPT ![t] = Tail(@)]

\* the sender's callback runs with `r`
Respond(k, pc, r) ==
    threads' = [threads EXCEPT ![k].pc = pc, ![k].resp = r]

\* onMessage INIT_CAPTURE: initCapture() runs and its metrics are the response
AgentInitCapture(t) ==
    /\ ~gone[t] /\ inbox[t] # <<>> /\ Head(inbox[t]).action = "INIT_CAPTURE"
    /\ page' = [page EXCEPT ![t] = initCapturePage(@)]
    /\ agent' = [agent EXCEPT ![t] = initCaptureAgent(page[t], @)]
    /\ Respond(Head(inbox[t]).from, "gotInit", initCaptureMetrics(page[t]))
    /\ Pop(t)
    /\ snap' = [snap EXCEPT ![t] = [prepared |-> TRUE, restored |-> FALSE,
                                    els |-> page[t].els]]
    /\ UNCHANGED <<locVars, gone, growths, settling, captureState, sessions,
                   startsLeft, storage, results, hist>>

\* onMessage SCROLL_TO: scrollToAndReady(y) up to its wait(1000)
AgentScrollTo(t) ==
    /\ ~gone[t] /\ inbox[t] # <<>> /\ Head(inbox[t]).action = "SCROLL_TO"
    /\ agent[t].scrollContainer # 0
    /\ page' = [page EXCEPT ![t] =
                   ScrollElementTo(@, agent[t].scrollContainer, Head(inbox[t]).arg)]
    /\ settling' = [settling EXCEPT ![t] = @ \cup {Head(inbox[t]).from}]
    /\ Pop(t)
    /\ UNCHANGED <<locVars, gone, growths, agent, bgVars, results, hist,
                   snap>>

\* scrollToAndReady after the wait: the offset reached is the response
AgentScrollReady(t, k) ==
    /\ ~gone[t] /\ k \in settling[t]
    /\ settling' = [settling EXCEPT ![t] = @ \ {k}]
    /\ Respond(k, "gotScroll",
               [NoResponse EXCEPT !.defined = TRUE,
                    !.actualY = page[t].els[agent[t].scrollContainer].scrollTop])
    /\ UNCHANGED <<locVars, page, gone, growths, agent, inbox, captureState,
                   sessions, startsLeft, storage, results, hist,
                   snap>>

\* onMessage UPDATE_PROGRESS; the sender passes no callback that matters
AgentUpdateProgress(t) ==
    /\ ~gone[t] /\ inbox[t] # <<>> /\ Head(inbox[t]).action = "UPDATE_PROGRESS"
    /\ agent' = [agent EXCEPT ![t] = updateProgressBar(@, Head(inbox[t]).arg)]
    /\ Pop(t)
    /\ UNCHANGED <<locVars, page, gone, growths, settling, bgVars, results, hist,
                   snap>>

\* onMessage RESTORE
AgentRestore(t) ==
    /\ ~gone[t] /\ inbox[t] # <<>> /\ Head(inbox[t]).action = "RESTORE"
    /\ page' = [page EXCEPT ![t] = restorePage(@, agent[t], Head(inbox[t]).arg)]
    /\ agent' = [agent EXCEPT ![t] = restoreAgent(@)]
    /\ Respond(Head(inbox[t]).from, "gotRestore",
               [NoResponse EXCEPT !.defined = TRUE])
    /\ Pop(t)
    /\ snap' = [snap EXCEPT ![t].restored = TRUE]
    /\ UNCHANGED <<locVars, gone, growths, settling, captureState, sessions,
                   startsLeft, storage, results, hist>>

\* the pc an invocation goes to when the answer to `action` arrives
AfterAnswer(action) ==
    CASE action = "INIT_CAPTURE" -> "gotInit"
      [] action = "SCROLL_TO" -> "gotScroll"
      [] OTHER -> "gotRestore"

\* a sender that treats the missing answer to UPDATE_PROGRESS like the others
UnreachableAnswersAll(t) ==
    /\ gone[t] /\ inbox[t] # <<>>
    /\ Respond(Head(inbox[t]).from, AfterAnswer(Head(inbox[t]).action),
               NoResponse)
    /\ Pop(t)
    /\ UNCHANGED <<locVars, page, gone, growths, agent, settling, captureState,
                   sessions, startsLeft, storage, results, hist,
                   snap>>

\* chrome.tabs.sendMessage with no receiver: the callback runs with undefined
Unreachable(t) ==
    /\ gone[t] /\ inbox[t] # <<>>
    /\ IF Head(inbox[t]).action = "UPDATE_PROGRESS"
       THEN UNCHANGED threads
       ELSE Respond(Head(inbox[t]).from, AfterAnswer(Head(inbox[t]).action),
                    NoResponse)
    /\ Pop(t)
    /\ UNCHANGED <<locVars, page, gone, growths, agent, settling, captureState,
                   sessions, startsLeft, storage, results, hist,
                   snap>>

\* the port of a SCROLL_TO closes while its handler waits: undefined
ScrollAbandoned(t, k) ==
    /\ gone[t] /\ k \in settling[t]
    /\ settling' = [settling EXCEPT ![t] = @ \ {k}]
    /\ Respond(k, "gotScroll", NoResponse)
    /\ UNCHANGED <<locVars, page, gone, growths, agent, inbox, captureState,
                   sessions, startsLeft, storage, results, hist,
                   snap>>

\* the tab is closed or leaves the document while a message is on its way or
\* a scroll is settling
TabGone(t) ==
    /\ ~gone[t]
    /\ inbox[t] # <<>> \/ settling[t] # {}
    /\ gone' = [gone EXCEPT ![t] = TRUE]
    /\ UNCHANGED <<locVars, page, growths, agent, inbox, settling, bgVars,
                   results, hist,
                   snap>>

\* the page adds content below (lazy loading) before a scroll is carried out
PageGrows(t) ==
    /\ ~gone[t] /\ growths[t] < MaxGrowths
    /\ inbox[t] # <<>> /\ Head(inbox[t]).action = "SCROLL_TO"
    /\ agent[t].scrollContainer # 0
    /\ page' = [page EXCEPT ![t].els[agent[t].scrollContainer].scrollHeight =
                   @ + GrowUnit]
    /\ growths' = [growths EXCEPT ![t] = @ + 1]
    /\ UNCHANGED <<locVars, gone, agent, inbox, settling, bgVars, results, hist,
                   snap>>

(***************************************************************************)
(* The capture of one tab: documents whose <html> is the scroll container, *)
(* with a fixed header and a sticky bar that prepare hides.                *)
(***************************************************************************)
ViewHeights == {OVERLAP + d * StepUnit : d \in -1..MaxStepRank}

RECURSIVE Pow2(_)
Pow2(n) == IF n = 0 THEN 1 ELSE 2 * Pow2(n - 1)

ExtraHeights == {FullUnit * (Pow2(j) - 1) : j \in 0..MaxFullRank}

\* <html> with the viewport's height vh, content height fh, scrolled to y
RootOf(vh, fh, y) ==
    [MakeElement("visible", fh) EXCEPT
        !.clientHeight = vh, !.scrollTop = y,
        !.rect = Rect(0 - y, fh - y, 0, InnerWidth)]

Chrome(position, styleVisibility) ==
    [MakeElement("fits", 0) EXCEPT
        !.clientHeight = 60, !.scrollHeight = 60, !.position = position,
        !.styleVisibility = styleVisibility, !.rect = Rect(0, 60, 0, InnerWidth)]

CapturePage(vh, fh, y) ==
    [els |-> <<RootOf(vh, fh, y), Chrome("fixed", ""), Chrome("sticky", "visible")>>,
     innerWidth |-> InnerWidth, innerHeight |-> vh, scrollingElement |-> 1,
     devicePixelRatio4 |-> 8]

\* tab 2 is not captured under Init
BlankPage == CapturePage(InnerHeight, InnerHeight, 0)

IdleBackground ==
    /\ captureState = [t \in Tabs |-> 0]
    /\ sessions = [k \in Threads |-> NoSession]
    /\ threads = [k \in Threads |-> IdleThread]
    /\ storage = NoSession
    /\ hist = [k \in Threads |-> NoHist]

IdlePages ==
    /\ gone = [t \in Tabs |-> FALSE]
    /\ growths = [t \in Tabs |-> 0]
    /\ agent = [t \in Tabs |-> FreshAgent]
    /\ inbox = [t \in Tabs |-> <<>>]
    /\ settling = [t \in Tabs |-> {}]
    /\ snap = [t \in Tabs |-> [prepared |-> FALSE, restored |-> FALSE,
                                els |-> <<>>]]

IdleLocator ==
    /\ doc = MakePage(MakeElement("fits", 0), <<>>, 1)
    /\ located = 0

Init ==
    /\ IdleLocator
    /\ IdlePages
    /\ IdleBackground
    /\ startsLeft = 1
    /\ results = <<>>
    /\ \E vh \in ViewHeights, extra \in ExtraHeights :
          \E y \in {0, extra} :
             page = [t \in Tabs |-> IF t = 1 THEN CapturePage(vh, vh + extra, y)
                                    ELSE BlankPage]

BackgroundStep(k) ==
    \/ InjectFails(k)
    \/ InjectDone(k)
    \/ InitResponse(k)
    \/ ScrollResponse(k)
    \/ CaptureFailed(k)
    \/ CaptureDone(k)
    \/ RestoreResponse(k)
    \/ StorageDone(k)
    \/ StorageFailed(k)

AgentStep(t) ==
    \/ AgentInitCapture(t)
    \/ AgentScrollTo(t)
    \/ \E k \in Threads : AgentScrollReady(t, k)
    \/ AgentUpdateProgress(t)
    \/ AgentRestore(t)
    \/ Unreachable(t)
    \/ \E k \in Threads : ScrollAbandoned(t, k)

ResultStep(i) ==
    \/ ResultLoad(i)
    \/ ResultImageError(i)
    \/ ResultStitch(i)

Next ==
    \/ SerializedStart(1)
    \/ \E k \in Threads : BackgroundStep(k)
    \/ \E t \in Tabs : AgentStep(t)
    \/ \E t \in Tabs : TabGone(t) \/ PageGrows(t)
    \/ \E i \in 1..Len(results) : ResultStep(i)

Spec == Init /\ [][Next]_vars

(***************************************************************************)
(* The same program when the popup's button is clicked again while a       *)
(* capture of the tab is under way: nothing in popup.js or background.js   *)
(* holds the second START_CAPTURE back.                                    *)
(***************************************************************************)
OverlapInit ==
    /\ IdleLocator
    /\ IdlePages
    /\ IdleBackground
    /\ startsLeft = 2
    /\ results = <<>>
    /\ page = [t \in Tabs |->
                 IF t = 1
                 THEN CapturePage(OVERLAP + StepUnit, OVERLAP + StepUnit, 0)
                 ELSE BlankPage]

\* the page fits its viewport, so that a session is one step long; the result
\* pages and the page's growth are left to Spec
OverlapNext ==
    \/ StartRequest(1)
    \/ \E k \in Threads : BackgroundStep(k)
    \/ \E t \in Tabs : AgentStep(t)
    \/ \E t \in Tabs : TabGone(t)

SpecOverlap == OverlapInit /\ [][OverlapNext]_vars

(***************************************************************************)
(* The same program on documents with more to hide and restore: elements   *)
(* of every position and inline visibility, and a scroll container that is *)
(* <html> or a nested element.                                             *)
(***************************************************************************)
(* Two tabs, each captured once: the tabs of two windows, so that both      *)
(* captures can be under way together.  Each page fits its viewport.       *)
(***************************************************************************)
TwoTabsInit ==
    /\ IdleLocator /\ IdlePages /\ IdleBackground
    /\ startsLeft = 2
    /\ results = <<>>
    /\ page = [t \in Tabs |->
                  CapturePage(OVERLAP + t * StepUnit, OVERLAP + t * StepUnit, 0)]

TwoTabsNext ==
    \/ \E t \in Tabs : SerializedStart(t)
    \/ \E k \in Threads : BackgroundStep(k)
    \/ \E t \in Tabs : AgentStep(t)
    \/ \E t \in Tabs : TabGone(t) \/ PageGrows(t)
    \/ \E i \in 1..Len(results) : ResultStep(i)

SpecTwoTabs == TwoTabsInit /\ [][TwoTabsNext]_vars

(***************************************************************************)
Positions == {"static", "fixed", "sticky"}
InlineVisibilities == {"", "visible", "hidden"}

\* a nested scroller filling the viewport
ContainerOf(vh, fh, y, position, styleVisibility) ==
    [MakeElement("auto", fh) EXCEPT
        !.clientHeight = vh, !.scrollTop = y, !.position = position,
        !.styleVisibility = styleVisibility, !.rect = Rect(0, vh, 0, InnerWidth)]

StyledPage(nested, vh, fh, y, e2, e3) ==
    [els |-> IF nested
             THEN <<RootOf(vh, vh, 0),
                    ContainerOf(vh, fh, y, e2.position, e2.styleVisibility), e3>>
             ELSE <<RootOf(vh, fh, y), e2, e3>>,
     innerWidth |-> InnerWidth, innerHeight |-> vh, scrollingElement |-> 1,
     devicePixelRatio4 |-> 8]

PageInit ==
    /\ IdleLocator
    /\ IdlePages
    /\ IdleBackground
    /\ startsLeft = 1
    /\ results = <<>>
    /\ \E nested \in BOOLEAN, extra \in {0, FullUnit}, p2 \in Positions,
          p3 \in Positions, v2 \in InlineVisibilities, v3 \in InlineVisibilities :
          \E y \in {0, extra} :
             page = [t \in Tabs |->
                 IF t = 1
                 THEN StyledPage(nested, OVERLAP + StepUnit,
                                 OVERLAP + StepUnit + extra, y,
                                 Chrome(p2, v2), Chrome(p3, v3))
                 ELSE BlankPage]

SpecPage == PageInit /\ [][Next]_vars

(***************************************************************************)
(* Documents whose <html> or nested scroll container carries an inline     *)
(* overflow before the capture.                                            *)
(***************************************************************************)
RootOverflows == {"", "visible"}
ContainerOverflows == {"", "auto"}

OverflowPage(nested, vh, fh, rootOverflow, containerOverflow) ==
    LET p == StyledPage(nested, vh, fh, 0, Chrome("fixed", ""),
                        Chrome("static", ""))
    IN  [p EXCEPT !.els[1].styleOverflow = rootOverflow,
                  !.els[2].styleOverflow =
                      IF nested THEN containerOverflow ELSE @]

OverflowInit ==
    /\ IdleLocator
    /\ IdlePages
    /\ IdleBackground
    /\ startsLeft = 1
    /\ results = <<>>
    /\ \E nested \in BOOLEAN, extra \in {0, FullUnit},
          o1 \in RootOverflows, o2 \in ContainerOverflows :
             page = [t \in Tabs |->
                 IF t = 1
                 THEN OverflowPage(nested, OVERLAP + StepUnit,
                                   OVERLAP + StepUnit + extra, o1, o2)
                 ELSE BlankPage]

SpecOverflow == OverflowInit /\ [][Next]_vars

(***************************************************************************)
(* The stitcher on stored captures: result.html is opened on whatever      *)
(* 'capturedData' holds.                                                   *)
(***************************************************************************)
FrameOffsets == {0, 420, 421, 840}
ImageWidths == {1000, 2048}
ImageHeights == {100, 1000}
\* devicePixelRatio 1, 1.5 and 2
PixelRatios4 == {4, 6, 8}

Frames ==
    {[y |-> y, width |-> w, height |-> h] :
        y \in FrameOffsets, w \in ImageWidths, h \in ImageHeights}

\* what finishCapture stored: the session object with its frames
StoredCapture(images, scale4) ==
    [NoSession EXCEPT !.live = TRUE, !.images = images,
                      !.devicePixelRatio4 = scale4, !.overlap = OVERLAP]

StitchInit ==
    /\ IdleLocator
    /\ IdlePages
    /\ captureState = [t \in Tabs |-> 0]
    /\ sessions = [k \in Threads |-> NoSession]
    /\ threads = [k \in Threads |-> IdleThread]
    /\ hist = [k \in Threads |-> NoHist]
    /\ startsLeft = 0
    /\ page = [t \in Tabs |-> BlankPage]
    /\ results = <<NewResultPage>>
    /\ \/ storage = NoSession
       \/ \E n \in 0..MaxFrames, scale4 \in PixelRatios4 :
             \E images \in [1..n -> Frames] :
                storage = StoredCapture(images, scale4)

StitchNext == ResultStep(1)

SpecStitch == StitchInit /\ [][StitchNext]_vars

LocInit ==
    /\ \E r \in RootElements, n \in 0..MaxElems, se \in 0..2 :
          \E rest \in [1..n -> Elements] :
              /\ IsLocatorPage(MakePage(r, rest, se))
              /\ doc = MakePage(r, rest, se)
    /\ located = 0
    /\ IdlePages
    /\ IdleBackground
    /\ startsLeft = 0
    /\ results = <<>>
    /\ page = [t \in Tabs |-> BlankPage]

\* the test harness calls the exported function on the document
LocateCall ==
    /\ located = 0
    /\ located' = findScrollableElement(doc)
    /\ UNCHANGED <<pageVars, bgVars, results, hist, doc>>

LocNext == LocateCall

SpecLocate == LocInit /\ [][LocNext]_vars

(***************************************************************************)
(* Properties of the capture loop.                                         *)
(***************************************************************************)
Finishing(k) == hist[k].cause # "none"
Ended(k) == threads[k].pc \in {"done", "thrown"}
Last(q) == q[Len(q)]

\* C1: a session performs at most MAX_STEPS steps: at most MAX_STEPS
\* SCROLL_TO requests and viewport captures are issued, frames never holds
\* more than MAX_STEPS entries, and an iteration that starts with
\* steps >= MAX_STEPS issues no scroll or capture: it goes to Finishing.
C1_AtMostMaxSteps ==
    \A k \in Threads :
        /\ hist[k].scrolls <= MAX_STEPS
        /\ hist[k].captures <= MAX_STEPS
        /\ Len(sessions[k].images) <= MAX_STEPS
        /\ sessions[k].steps <= MAX_STEPS
        /\ hist[k].scrolls = sessions[k].steps
        /\ hist[k].cause = "limit" =>
              /\ hist[k].scrolls = MAX_STEPS
              /\ hist[k].captures = MAX_STEPS
              /\ threads[k].pc \notin {"awaitScroll", "gotScroll", "awaitCapture"}

\* the 50th frame is in, the page is not exhausted, and the loop has stopped
C1_Witness ==
    \E k \in Threads :
        /\ hist[k].cause = "limit"
        /\ Len(sessions[k].images) = MAX_STEPS
        /\ hist[k].scrolls = MAX_STEPS
        /\ threads[k].pc = "awaitRestore"

\* C2: a session that entered Stepping ends with its entry removed from the
\* session map (the final result of "eventually Finishing, then Idle"): once
\* its invocation has run to its end, captureState has no entry for the tab.
C2_EntryRemovedAtEnd ==
    \A k \in Threads :
        (hist[k].stepping /\ Ended(k)) => captureState[threads[k].tab] = 0

\* C3: two consecutive equal actual offsets end the loop on that step: an
\* equal pair is always the last pair, no SCROLL_TO follows it, and once the
\* step's capture has come back the session is Finishing.
C3_StuckTerminates ==
    \A k \in Threads :
        LET o == hist[k].offsets IN
        \A i \in 1..(Len(o) - 1) :
            o[i] = o[i + 1] =>
                /\ i + 1 = Len(o)
                /\ hist[k].scrolls = Len(o)
                /\ threads[k].pc = "awaitCapture" \/ Finishing(k)

\* the page returned the same offset twice and stuck detection ended the loop
C3_Witness ==
    \E k \in Threads :
        LET o == hist[k].offsets IN
        /\ Len(o) >= 2
        /\ o[Len(o)] = o[Len(o) - 1]
        /\ hist[k].cause = "stuck"
        /\ ~gone[threads[k].tab]

\* C4: on every path into Finishing a RESTORE carrying the session's
\* originalScrollY is sent, exactly one, and before the hand-off (the
\* storage write) and before the entry is deleted.
C4_RestoreOnEveryFinish ==
    \A k \in Threads :
        /\ Finishing(k) => hist[k].restores = <<sessions[k].originalScrollY>>
        /\ hist[k].handoffs > 0 => Finishing(k)
        /\ (sessions[k].live /\ captureState[threads[k].tab] # k) => Finishing(k)
        /\ ~Finishing(k) => hist[k].restores = <<>>

\* a capture failure, on a page that was scrolled when the capture began
C4_Witness ==
    \E k \in Threads :
        /\ hist[k].cause = "captureFailed"
        /\ sessions[k].originalScrollY > 0
        /\ hist[k].restores = <<sessions[k].originalScrollY>>
        /\ hist[k].handoffs > 0

\* offset y lies in the interval [y_i, y_i + visibleHeight) of some frame
InSomeFrame(session, y) ==
    \E i \in 1..Len(session.images) :
        /\ session.images[i].y <= y
        /\ y < session.images[i].y + session.visibleHeight

\* the frames' intervals [y, y + visibleHeight) cover [0, fullHeight): the
\* least offset not covered, if there is one, is 0 or the end of an interval,
\* so it is enough that these are covered
Covers(session) ==
    /\ session.fullHeight > 0 => InSomeFrame(session, 0)
    /\ \A i \in 1..Len(session.images) :
          LET end == session.images[i].y + session.visibleHeight
          IN  (0 <= end /\ end < session.fullHeight) => InSomeFrame(session, end)

\* the page kept its size and every capture succeeded
StaticRun(k) ==
    /\ hist[k].cause \in {"limit", "stuck", "complete"}
    /\ growths[threads[k].tab] = 0

\* C6 as stated: on a static page with no capture failure the frames of a
\* finished session cover [0, fullHeight), whatever the two heights are.
C6_CoversAnyPage ==
    \A k \in Threads : StaticRun(k) => Covers(sessions[k])

\* the pages MAX_STEPS steps of visibleHeight - OVERLAP reach the bottom of;
\* with a viewport no taller than the overlap, those that fit in one frame
WithinReach(session) ==
    session.fullHeight <= session.visibleHeight
        + (MAX_STEPS - 1) * (session.visibleHeight - OVERLAP)

\* C6: on a static page with no capture failure the frames of a finished
\* session cover [0, fullHeight), provided fullHeight <= visibleHeight +
\* (MAX_STEPS - 1) * (visibleHeight - OVERLAP).
C6_CoversWithinReach ==
    \A k \in Threads :
        (StaticRun(k) /\ WithinReach(sessions[k])) => Covers(sessions[k])

\* a page of several viewports swept to its bottom
C6_Witness ==
    \E k \in Threads :
        /\ StaticRun(k)
        /\ WithinReach(sessions[k])
        /\ hist[k].cause = "complete"
        /\ Len(sessions[k].images) >= 3
        /\ ~gone[threads[k].tab]

\* the elements prepare forced to hidden, by the document it found
HiddenByPrepare(t) == FixedOrSticky([els |-> snap[t].els])

Invisible(i) ==
    LET el == doc.els[i] IN
    \/ el.display = "none"
    \/ el.cssVisibility = "hidden" \/ el.styleVisibility = "hidden"
    \/ el.opacity = "0"
    \/ el.rect.right - el.rect.left = 0 \/ el.rect.bottom - el.rect.top = 0
    \/ el.rect.top >= doc.innerHeight \/ el.rect.bottom <= 0
    \/ el.rect.left >= doc.innerWidth \/ el.rect.right <= 0

Overflows(i) == doc.els[i].scrollHeight > doc.els[i].clientHeight

Scrolls(i) ==
    /\ Overflows(i)
    /\ \/ doc.els[i].styleOverflow \in {"auto", "scroll", "overlay"}
       \/ /\ doc.els[i].styleOverflow = ""
          /\ doc.els[i].cssOverflowY \in {"auto", "scroll", "overlay"}

LargeEnough(i) ==
    /\ 2 * doc.els[i].clientWidth >= doc.innerWidth
    /\ 2 * doc.els[i].clientHeight >= doc.innerHeight

\* the enumerated elements that survive the three filters
EnumSurvivors ==
    {i \in 1..Len(doc.els) : LargeEnough(i) /\ ~Invisible(i) /\ Scrolls(i)}

\* the native scrolling root, when it scrolls
ScrollingRoot ==
    IF doc.scrollingElement # 0 /\ Overflows(doc.scrollingElement)
    THEN {doc.scrollingElement} ELSE {}

Survivors == EnumSurvivors \cup ScrollingRoot

IsRoot(i) == i = 1 \/ i = doc.scrollingElement

Length(i) == doc.els[i].scrollHeight

\* C7 as stated: an element is returned, and an invisible, zero-area or
\* off-viewport one only when no visible scrollable candidate exists, and then
\* it is the document root.
C7_NeverInvisible ==
    located # 0 =>
        /\ located \in 1..Len(doc.els)
        /\ Invisible(located) =>
              /\ \A i \in Survivors : Invisible(i)
              /\ IsRoot(located)

\* C7: an element is always returned; one that is not the document root or the
\* native scrolling root is never invisible, zero-area or off-viewport,
\* however long a hidden candidate is; an invisible result is the native
\* scrolling root that scrolls, or the document root when nothing survives.
C7_InvisibleOnlyIfRoot ==
    located # 0 =>
        /\ located \in 1..Len(doc.els)
        /\ ~IsRoot(located) => ~Invisible(located)
        /\ Invisible(located) =>
              \/ located \in ScrollingRoot
              \/ located = 1 /\ Survivors = {}

C7_Witness ==
    /\ located # 0 /\ ~IsRoot(located) /\ ~Invisible(located)
    /\ \E i \in 1..Len(doc.els) :
          /\ Invisible(i) /\ Scrolls(i) /\ LargeEnough(i)
          /\ doc.els[i].opacity = "0"
          /\ Length(i) > Length(located)

\* C8: when anything survives the filters (the native scrolling root that
\* scrolls included), the element returned is a survivor whose scrollHeight
\* is maximal.
C8_ReturnsLongest ==
    located # 0 =>
        LET S == Survivors IN
        S # {} =>
            /\ located \in S
            /\ \A c \in S : Length(located) >= Length(c)

C8_Witness ==
    /\ located = 3
    /\ Length(3) = 5000
    /\ 2 \in EnumSurvivors /\ Length(2) = 1000
    /\ 1 \in ScrollingRoot /\ Length(1) = 1000

Longest ==
    LET S == Survivors
    IN  {i \in S : \A c \in S : Length(i) >= Length(c)}

\* C9 as stated: among candidates of maximal scrollHeight the first in
\* document order is returned, and the native scrolling root only when no
\* (other) enumerated candidate is at least as long as it.
C9_RootOnlyIfStrictlyLongest ==
    located # 0 =>
        /\ located \in EnumSurvivors =>
              \A i \in EnumSurvivors \cap Longest : located <= i
        /\ located \in ScrollingRoot =>
              \A e \in EnumSurvivors \ {located} : Length(e) < Length(located)

\* C9: among the enumerated candidates of maximal scrollHeight the first in
\* document order is returned; the native scrolling root that is not itself
\* an enumerated candidate is returned only when it is strictly longer than
\* every enumerated candidate.
C9_FirstOfLongest ==
    located # 0 =>
        LET E == EnumSurvivors
            T == E \cap Longest
        IN  (E \cup ScrollingRoot # {}) =>
                IF T # {}
                THEN /\ located \in T
                     /\ \A i \in T : located <= i
                ELSE /\ located \in ScrollingRoot
                     /\ \A e \in E : Length(e) < Length(located)

C9_Witness ==
    /\ located = 2
    /\ {2, 3} \subseteq EnumSurvivors \cap Longest
    /\ 1 \in ScrollingRoot \cap Longest
    /\ 1 \notin EnumSurvivors


(***************************************************************************)
(* The stitcher's claims.                                                  *)
(***************************************************************************)
Stitched(i) == results[i].pc = "done"

\* the height of the claim in quarter pixels: logicalY of the last frame times
\* the pixel ratio, plus the height of the last frame's image
ClaimedHeight4 ==
    Last(storage.images).y * storage.devicePixelRatio4
        + 4 * Last(storage.images).height

\* C10 as stated: the composite's height equals logicalY(last) * pixelRatio +
\* height(last image), and its width the first image's width.
C10_HeightFormula ==
    \A i \in 1..Len(results) :
        Stitched(i) =>
            /\ 4 * results[i].height = ClaimedHeight4
            /\ results[i].width = storage.images[1].width

\* C10: the composite's height is the integer part of logicalY(last) *
\* pixelRatio + height(last image), hence equal to it when that product is
\* whole; its width is the first image's width.
C10_HeightIsIntegerPart ==
    \A i \in 1..Len(results) :
        Stitched(i) =>
            /\ 4 * results[i].height <= ClaimedHeight4
            /\ ClaimedHeight4 < 4 * results[i].height + 4
            /\ (ClaimedHeight4 % 4 = 0 => 4 * results[i].height = ClaimedHeight4)
            /\ results[i].width = storage.images[1].width

C10_Witness ==
    /\ Len(results) = 1 /\ Stitched(1)
    /\ Len(storage.images) = 3
    /\ storage.images[1].y = 0 /\ storage.images[2].y = 420
    /\ storage.images[3].y = 840
    /\ \A j \in 1..3 : storage.images[j].height = 1000
    /\ storage.devicePixelRatio4 = 8 /\ storage.overlap = 80
    /\ results[1].height = 2680
    /\ results[1].width = storage.images[1].width


\* the draws of result page i that show frame j
DrawsOfFrame(i, j) ==
    {n \in 1..Len(results[i].draws) : results[i].draws[n].index = j}

\* C11: frame 1 is drawn in full at logicalY * pixelRatio; a later frame loses
\* its top overlap * pixelRatio device rows and the rest is drawn at
\* logicalY * pixelRatio + overlap * pixelRatio, or nothing is drawn for it
\* when no row is left; frames are drawn in their order.
C11_DrawPlacement ==
    \A i \in 1..Len(results) :
        Stitched(i) =>
            LET imgs == storage.images
                ratio4 == storage.devicePixelRatio4
                crop4 == storage.overlap * ratio4
                D == results[i].draws
            IN  /\ \A n \in 1..Len(D) : D[n].index \in 1..Len(imgs)
                /\ \A n \in 1..(Len(D) - 1) : D[n].index < D[n + 1].index
                /\ D[1] = [index |-> 1, srcY4 |-> 0,
                           srcHeight4 |-> 4 * imgs[1].height,
                           destY4 |-> imgs[1].y * ratio4]
                /\ \A j \in 2..Len(imgs) :
                      IF 4 * imgs[j].height - crop4 > 0
                      THEN \E n \in 1..Len(D) :
                              D[n] = [index |-> j, srcY4 |-> crop4,
                                      srcHeight4 |-> 4 * imgs[j].height - crop4,
                                      destY4 |-> imgs[j].y * ratio4 + crop4]
                      ELSE DrawsOfFrame(i, j) = {}

\* pixelRatio 2, overlap 80: frame 2 loses 160 rows, frame 3 (100 rows high)
\* is not drawn
C11_Witness ==
    /\ Len(results) = 1 /\ Stitched(1)
    /\ Len(storage.images) = 3
    /\ storage.devicePixelRatio4 = 8 /\ storage.overlap = 80
    /\ storage.images[2].height = 1000 /\ storage.images[3].height = 100
    /\ storage.images[2].y = 420
    /\ Len(results[1].draws) = 2
    /\ results[1].draws[2].srcY4 = 4 * 160
    /\ results[1].draws[2].destY4 = 4 * (840 + 160)

\* C12: with no stored capture, or one without frames, the result page
\* reports no data: it never loads images or reaches done, and the canvas
\* keeps its default size with nothing drawn.
C12_NoDataNoComposite ==
    \A i \in 1..Len(results) :
        (~storage.live \/ storage.images = <<>>) =>
            /\ results[i].pc \in {"loading", "noData"}
            /\ results[i].width = 300 /\ results[i].height = 150
            /\ results[i].draws = <<>>

C12_Witness ==
    /\ Len(results) = 1
    /\ results[1].pc = "noData"
    /\ storage.live /\ storage.images = <<>>


(***************************************************************************)
(* The orchestrator's failure paths.                                       *)
(***************************************************************************)
CaptureFailure(k) == hist[k].cause = "captureFailed"

\* C13: when a step's viewport capture fails no frame is appended for it,
\* no further capture or scroll is requested, the session is finishing (its
\* RESTORE is out), and the frames stay those of the earlier steps, which are
\* what is written to storage.
C13_CaptureFailureFinishes ==
    \A k \in Threads :
        CaptureFailure(k) =>
            /\ Len(sessions[k].images) = hist[k].captures - 1
            /\ hist[k].captures = hist[k].scrolls
            /\ hist[k].scrolls = sessions[k].steps
            /\ \A i \in 1..Len(sessions[k].images) :
                  sessions[k].images[i].y = hist[k].offsets[i]
            /\ threads[k].pc \in {"awaitRestore", "gotRestore", "awaitStorage",
                                  "done", "thrown"}
            /\ Len(hist[k].restores) = 1
            /\ threads[k].pc = "awaitStorage" =>
                  threads[k].write.images = sessions[k].images
            /\ threads[k].pc = "done" => storage.images = sessions[k].images

\* the third capture fails on a tab that is still there; two frames are stored
C13_Witness ==
    \E k \in Threads :
        /\ CaptureFailure(k)
        /\ ~gone[threads[k].tab]
        /\ hist[k].captures = 3
        /\ Len(sessions[k].images) = 2
        /\ threads[k].pc = "done"
        /\ storage.images = sessions[k].images

\* the step by which invocation k gives up preparing: executeScript rejected,
\* or INIT_CAPTURE came back with no response
PrepareFails(k) ==
    \/ threads[k].pc = "inject" /\ threads'[k].pc \notin {"inject", "awaitInit"}
    \/ /\ threads[k].pc = "gotInit" /\ ~threads[k].resp.defined
       /\ threads'[k] # threads[k]

\* an invocation that ended without a session has sent nothing and left no
\* entry
NoLoopAfterFailure ==
    \A k \in Threads :
        (threads[k].pc = "done" /\ sessions[k] = NoSession) =>
            /\ hist[k] = NoHist
            /\ captureState[threads[k].tab] = 0

\* C14: when prepare fails the invocation ends there: no session object and
\* no entry for the tab is made, nothing is sent to the page and no capture is
\* requested, then or later.
C14_PrepareFailureAborts ==
    /\ []NoLoopAfterFailure
    /\ [][\A k \in Threads :
             PrepareFails(k) =>
                 /\ threads'[k].pc = "done"
                 /\ sessions' = sessions /\ sessions[k] = NoSession
                 /\ captureState' = captureState
                 /\ captureState[threads[k].tab] = 0
                 /\ inbox' = inbox
                 /\ hist' = hist /\ hist[k] = NoHist]_vars

\* INIT_CAPTURE went unanswered because the tab had gone
C14_Witness ==
    \E k \in Threads :
        /\ threads[k].pc = "done"
        /\ sessions[k] = NoSession
        /\ hist[k] = NoHist
        /\ agent[threads[k].tab].hasRun
        /\ gone[threads[k].tab]
        /\ captureState[threads[k].tab] = 0


\* the invocations of startCapture that are in captureLoop or finishCapture
\* for tab t
LoopingOn(t) ==
    {k \in Threads : /\ threads[k].tab = t
                     /\ threads[k].pc \in {"awaitScroll", "gotScroll",
                            "awaitCapture", "awaitRestore", "gotRestore",
                            "awaitStorage"}}

\* C15: at no time are two sessions of one tab stepping or finishing, i.e. at
\* most one capture loop runs per tab, whatever the start requests are.
C15_OneSessionPerTarget ==
    \A t \in Tabs : Cardinality(LoopingOn(t)) <= 1


(***************************************************************************)
(* The order and spacing of a session's frames.                            *)
(***************************************************************************)
NonDecreasing(images) ==
    \A i \in 1..(Len(images) - 1) : images[i].y <= images[i + 1].y

\* the frames are the offsets of the steps captured so far, in step order
InCaptureOrder(k) ==
    /\ Len(sessions[k].images) <= Len(hist[k].offsets)
    /\ \A i \in 1..Len(sessions[k].images) :
          sessions[k].images[i].y = hist[k].offsets[i]

\* C16: in every state a session's frames are in capture order (each step's
\* frame appended behind the earlier ones) and their logicalY never decreases
\* along the list.
C16_FramesTopToBottom ==
    \A k \in Threads :
        /\ InCaptureOrder(k)
        /\ NonDecreasing(sessions[k].images)


\* the SCROLL_TO requests of invocation k that have no response yet: on their
\* way to the page, or inside the page's wait
OutstandingScrolls(k) ==
    LET t == threads[k].tab
        sent == SelectSeq(inbox[t],
                          LAMBDA m : m.action = "SCROLL_TO" /\ m.from = k)
    IN  Len(sent) + (IF k \in settling[t] THEN 1 ELSE 0)

\* C18: the steps of a session run one after another: a SCROLL_TO is out only
\* when every earlier step has its frame, the capture of a step is requested
\* only when its scroll has been answered, and never is more than one scroll
\* or capture outstanding.
C18_StepsSequential ==
    \A k \in Threads :
        threads[k].tab # 0 =>
            /\ OutstandingScrolls(k) <= 1
            /\ hist[k].scrolls <= Len(sessions[k].images) + 1
            /\ hist[k].captures <= hist[k].scrolls
            /\ hist[k].captures = Len(hist[k].offsets)
            /\ OutstandingScrolls(k) = 1 =>
                  /\ threads[k].pc = "awaitScroll"
                  /\ hist[k].scrolls = Len(sessions[k].images) + 1
                  /\ hist[k].captures = Len(sessions[k].images)
            /\ threads[k].pc = "awaitCapture" =>
                  /\ OutstandingScrolls(k) = 0
                  /\ hist[k].captures = hist[k].scrolls
                  /\ hist[k].captures = Len(sessions[k].images) + 1
            /\ threads[k].pc \in {"awaitScroll", "gotScroll"} =>
                  hist[k].captures = hist[k].scrolls - 1

\* the third SCROLL_TO is out with two frames in, no capture pending
C18_Witness ==
    \E k \in Threads :
        /\ threads[k].tab # 0
        /\ OutstandingScrolls(k) = 1
        /\ hist[k].scrolls = 3
        /\ hist[k].captures = 2
        /\ Len(sessions[k].images) = 2
        /\ ~gone[threads[k].tab]


\* invocation k appends a frame in this step, and the frame's offset is not the
\* previous one's: a step that is neither a capture failure nor stuck
StepTaken(k) ==
    /\ threads[k].pc = "awaitCapture"
    /\ Len(sessions'[k].images) = Len(sessions[k].images) + 1
    /\ ~(sessions[k].prevDefined /\ threads[k].actualY = sessions[k].prevY)

\* the step ends the loop for the given cause, and no SCROLL_TO follows
GoesToFinishing(k, cause) ==
    /\ hist'[k].cause = cause
    /\ hist'[k].scrolls = hist[k].scrolls
    /\ threads'[k].pc = "awaitRestore"
    /\ OutstandingScrolls(k)' = 0

\* the step is followed by a SCROLL_TO to actualY + visibleHeight - OVERLAP
Repeats(k) ==
    /\ hist'[k].cause = "none"
    /\ hist'[k].scrolls = hist[k].scrolls + 1
    /\ threads'[k].pc = "awaitScroll"
    /\ Last(inbox'[threads[k].tab]) =
          Message("SCROLL_TO", k,
                  threads[k].actualY + sessions[k].visibleHeight - OVERLAP)

ReachesEnd(k) ==
    threads[k].actualY + sessions[k].visibleHeight >= sessions[k].fullHeight

\* C19 as stated: after a step that is neither a capture failure nor stuck the
\* loop goes to Finishing with no further scroll if actualY + visibleHeight >=
\* fullHeight, and otherwise requests actualY + visibleHeight - OVERLAP.
C19_CompleteOrRepeat ==
    [][\A k \in Threads :
          StepTaken(k) =>
              IF ReachesEnd(k) THEN GoesToFinishing(k, "complete")
              ELSE Repeats(k)]_vars

\* C19, amended: the same, except that a step which leaves steps at MAX_STEPS
\* without reaching the end goes to Finishing with no further scroll.
C19_CompleteOrRepeatBelowLimit ==
    [][\A k \in Threads :
          StepTaken(k) =>
              IF ReachesEnd(k) THEN GoesToFinishing(k, "complete")
              ELSE IF sessions[k].steps >= MAX_STEPS
                   THEN GoesToFinishing(k, "limit")
              ELSE Repeats(k)]_vars

\* a second frame short of the end is in and the third offset has been requested
C19_Witness ==
    \E k \in Threads :
        /\ threads[k].tab # 0
        /\ threads[k].pc = "awaitScroll"
        /\ Len(sessions[k].images) = 2
        /\ sessions[k].images[2].y > sessions[k].images[1].y
        /\ sessions[k].images[2].y + sessions[k].visibleHeight
              < sessions[k].fullHeight
        /\ inbox[threads[k].tab] # <<>>
        /\ Last(inbox[threads[k].tab]) =
              Message("SCROLL_TO", k,
                      sessions[k].images[2].y + sessions[k].visibleHeight
                         - OVERLAP)


\* every frame lies at most visibleHeight - OVERLAP below the frame before it,
\* and the two have at least OVERLAP units of the container in common
SeamsOverlap(session) ==
    LET images == session.images
        height == session.visibleHeight
    IN  \A i \in 1..(Len(images) - 1) :
            LET apart == images[i + 1].y - images[i].y
            IN  /\ apart <= height - OVERLAP
                /\ height - (IF apart < 0 THEN -apart ELSE apart) >= OVERLAP

\* C20 as stated: the later of two consecutive frames lies at most
\* visibleHeight - OVERLAP below the earlier one, so that the two share at
\* least OVERLAP units.
C20_SeamsOverlap == \A k \in Threads : SeamsOverlap(sessions[k])

\* C20, amended: the same for a session whose viewport is at least OVERLAP
\* high.
C20_SeamsOverlapTallViewport ==
    \A k \in Threads :
        sessions[k].visibleHeight >= OVERLAP => SeamsOverlap(sessions[k])

\* two frames a full advance apart, and a third one clamped at the bottom
C20_Witness ==
    \E k \in Threads :
        /\ sessions[k].visibleHeight > OVERLAP
        /\ Len(sessions[k].images) = 3
        /\ sessions[k].images[2].y - sessions[k].images[1].y
              = sessions[k].visibleHeight - OVERLAP
        /\ sessions[k].images[3].y > sessions[k].images[2].y
        /\ sessions[k].images[3].y - sessions[k].images[2].y
              < sessions[k].visibleHeight - OVERLAP


(***************************************************************************)
(* Properties of the hand-off and of the page's restoration.               *)
(***************************************************************************)
\* invocation k leaves the storage write of finishCapture in this step
HandoffEnds(k) ==
    /\ threads[k].pc = "awaitStorage"
    /\ threads'[k].pc # "awaitStorage"

\* C21: finishCapture clears the session state whether or not the hand-off
\* succeeds: when the storage write has succeeded or failed, captureState has
\* no entry for the tab, and a result page is opened only by a write that
\* succeeded.
C21_FinishClearsEntry ==
    [][\A k \in Threads :
          HandoffEnds(k) =>
              /\ captureState'[threads[k].tab] = 0
              /\ Len(results') > Len(results) => storage' = threads[k].write]_vars


\* the UPDATE_PROGRESS at the head of tab t's messages is consumed in this
\* step: handled by the page, or lost for want of a receiver
ProgressConsumed(t) ==
    /\ inbox[t] # <<>>
    /\ Head(inbox[t]).action = "UPDATE_PROGRESS"
    /\ inbox'[t] = Tail(inbox[t])

\* C22: whatever becomes of an UPDATE_PROGRESS, the capture goes on as it
\* would have: the step that consumes one, delivered or lost, changes no
\* invocation, session, session entry or record of what was sent, nor the
\* page's scroll offsets, and the step that sent it has already taken the
\* loop's decision.
C22_ProgressNeverMatters ==
    [][\A t \in Tabs :
          /\ ProgressConsumed(t) =>
                /\ UNCHANGED <<threads, sessions, captureState, hist, storage,
                               results, page, settling>>
                /\ agent'[t].scrollContainer = agent[t].scrollContainer
          /\ \A k \in Threads :
                (/\ threads[k].tab = t
                 /\ threads[k].pc = "awaitCapture"
                 /\ Len(sessions'[k].images) > Len(sessions[k].images)) =>
                    threads'[k].pc \in {"awaitScroll", "awaitRestore"}]_vars

\* the tab went away before the second scroll was carried out, the second
\* progress report found no receiver, and the third step is under way
C22_Witness ==
    \E k \in Threads :
        LET t == threads[k].tab IN
        /\ t # 0
        /\ gone[t]
        /\ agent[t].scrollContainer # 0
        /\ page[t].els[agent[t].scrollContainer].scrollTop = 0
        /\ Len(sessions[k].images) = 2
        /\ sessions[k].images[2].y > 0
        /\ threads[k].pc = "awaitScroll"
        /\ Len(inbox[t]) = 1
        /\ hist[k].scrolls = 3


\* the elements of the document prepare found whose position is fixed or sticky
Pinned(t) ==
    {i \in 1..Len(snap[t].els) : snap[t].els[i].position \in {"fixed", "sticky"}}

\* C23: after prepare, and until restore, every fixed or sticky element of the
\* document has the inline visibility 'hidden' and an entry in originalStyles
\* that holds the inline visibility it had; the progress bar is there, is not
\* hidden, and the map has entries for those elements only.
C23_PrepareHidesPinned ==
    \A t \in Tabs :
        (snap[t].prepared /\ ~snap[t].restored) =>
            /\ \A i \in Pinned(t) :
                  /\ page[t].els[i].styleVisibility = "hidden"
                  /\ i \in DOMAIN agent[t].originalStyles
                  /\ agent[t].originalStyles[i] = snap[t].els[i].styleVisibility
            /\ DOMAIN agent[t].originalStyles = Pinned(t)
            /\ agent[t].barPresent
            /\ agent[t].barVisibility = ""

\* a fixed element that was visible inline and a sticky one that was hidden
\* inline are both hidden and recorded, with the bar showing progress
C23_Witness ==
    \E t \in Tabs :
        /\ snap[t].prepared /\ ~snap[t].restored /\ ~gone[t]
        /\ \E i \in Pinned(t), j \in Pinned(t) :
              /\ snap[t].els[i].position = "fixed"
              /\ snap[t].els[i].styleVisibility = "visible"
              /\ snap[t].els[j].position = "sticky"
              /\ snap[t].els[j].styleVisibility = "hidden"
              /\ page[t].els[i].styleVisibility = "hidden"
              /\ agent[t].originalStyles[i] = "visible"
              /\ agent[t].originalStyles[j] = "hidden"
        /\ agent[t].barPresent
        /\ agent[t].barPercent > 0


\* C24: after restore the inline overflow of <html> and of the scroll
\* container is what it was before prepare.
C24_OverflowRestored ==
    \A t \in Tabs :
        (snap[t].prepared /\ snap[t].restored) =>
            LET sc == agent[t].scrollContainer IN
            /\ page[t].els[1].styleOverflow = snap[t].els[1].styleOverflow
            /\ sc # 0 =>
                  page[t].els[sc].styleOverflow = snap[t].els[sc].styleOverflow


\* C25: once the page has handled RESTORE, and until a later prepare, the
\* document has no progress bar; the last step's UPDATE_PROGRESS, sent just
\* before RESTORE, does not bring it back.
C25_NoBarAfterRestore ==
    \A t \in Tabs :
        (snap[t].prepared /\ snap[t].restored) => ~agent[t].barPresent

\* the last step reported its progress and finished in one run, and the page
\* has handled both messages
C25_Witness ==
    \E k \in Threads :
        LET t == threads[k].tab IN
        /\ t # 0
        /\ ~gone[t]
        /\ snap[t].prepared /\ snap[t].restored
        /\ hist[k].cause = "complete"
        /\ Len(sessions[k].images) >= 2
        /\ threads[k].pc = "gotRestore"
        /\ inbox[t] = <<>>
        /\ ~agent[t].barPresent


\* C26: a result page stitches the frames and metrics of the session whose
\* finishCapture opened it.
C26_ResultReadsOwnSession ==
    \A i \in 1..Len(results) :
        results[i].pc \in {"loadingImages", "done"} =>
            /\ results[i].images = sessions[results[i].opener].images
            /\ results[i].scale4 = Scale4(sessions[results[i].opener])


\* the inline visibility element i of tab t's document had before any capture
\* (the documents of Init, OverlapInit and TwoTabsInit agree on it)
PreCaptureVisibility(i) == BlankPage.els[i].styleVisibility

\* every invocation has come to its end and the page has handled the last
\* RESTORE sent to it
AllOver(t) ==
    /\ snap[t].prepared /\ snap[t].restored
    /\ inbox[t] = <<>>
    /\ \A k \in Threads : threads[k].pc \in {"idle", "done", "thrown"}

\* C27: the visibility recorded for a hidden element is the one it had before
\* the capture, never the 'hidden' prepare forced on it, also when
\* INIT_CAPTURE is handled again before RESTORE; so when all is over every
\* element has its pre-capture visibility.
C27_RecordsPreCaptureVisibility ==
    \A t \in Tabs :
        /\ \A i \in DOMAIN agent[t].originalStyles :
              agent[t].originalStyles[i] = PreCaptureVisibility(i)
        /\ (AllOver(t) /\ ~gone[t]) =>
              \A i \in 1..Len(page[t].els) :
                  page[t].els[i].styleVisibility = PreCaptureVisibility(i)


\* C28: finishCapture runs exactly once for each session: one RESTORE and at
\* most one hand-off, the hand-off after the RESTORE; a session that stepped
\* and has ended was finished; and finishCapture never finds the tab's entry
\* deleted, so that no invocation ends by reading a missing entry (the one
\* throw there is, is that of the catch after a hand-off that failed).
C28_FinishesOnce ==
    \A k \in Threads :
        /\ Len(hist[k].restores) <= 1
        /\ hist[k].handoffs <= Len(hist[k].restores)
        /\ (hist[k].stepping /\ Ended(k)) => Len(hist[k].restores) = 1
        /\ threads[k].pc = "thrown" => hist[k].handoffs = 1

============================================================================
